---- MODULE Spec2Model ----
(***************************************************************************)
(* CoAP-over-TCP transport (aiocoap/transports/tcp.py): the framing codec, *)
(* the per-connection stream reassembler and signalling handler, and the   *)
(* client and server connection pools.                                     *)
(*                                                                         *)
(* Bytes are naturals 0..255, byte strings are sequences of bytes.  A      *)
(* Python exception that leaves a function is the name of the exception    *)
(* in the field "raised" of the value the operator returns ("" = none).    *)
(***************************************************************************)
EXTENDS Integers, Sequences, FiniteSets, TLC

VARIABLES
    conns,          \* connection id -> TcpConnection object (fields, transport, history)
    stream,         \* the bytes the peer of connection FeedConn sends, in order
    pos,            \* how many bytes of stream the event loop has delivered so far
    sends,          \* results of the send_message calls made so far
    tokenmanager,   \* pool -> whether the pool object still has its _tokenmanager
    client_pool,    \* TCPClient._pool: (host, port) -> connection id
    server_pool,    \* TCPServer._pool: set of connection ids
    tasks,          \* the fill_or_recognize_remote calls of the client, each a coroutine
    server,         \* the listening endpoint and the position of TCPServer.shutdown
    len_n,          \* codec check: the body length handed to encode_length
    len_enc,        \* codec check: what encode_length returned for len_n
    len_dec,        \* codec check: what extract_message_size read from that header
    frame_msg,      \* codec check: the message handed to serialize
    frame_enc,      \* codec check: what serialize returned for frame_msg
    frame_size,     \* codec check: what extract_message_size read from that frame
    frame_dec       \* codec check: what decode_message returned for that frame

vars == <<conns, stream, pos, sends, tokenmanager, client_pool, server_pool,
         tasks, server, len_n, len_enc, len_dec,
         frame_msg, frame_enc, frame_size, frame_dec>>

poolvars == <<client_pool, server_pool, tasks, server>>

framevars == <<frame_msg, frame_enc, frame_size, frame_dec>>

lenvars == <<len_n, len_enc, len_dec, framevars>>

----------------------------------------------------------------------------
(* Bounds of the model.                                                    *)

\* number of frames the peer sends on the connection under test
MaxFrames == 3
\* how far around each threshold of the length encoding the lengths are drawn
Near == 4
\* number of send_message calls on the connection under test
MaxSends == 1
\* number of fill_or_recognize_remote calls of the client
MaxTasks == 2
\* number of connections the pools create (client) or accept (server)
MaxConns == 3

----------------------------------------------------------------------------
(* Message codes and option numbers (aiocoap.numbers).                     *)

CSM == 225
PING == 226
PONG == 227
RELEASE == 228
ABORT == 229

\* Code.is_signalling: code class 7
is_signalling(code) == code >= 224

\* Code.is_response: code classes 2 to 5
is_response(code) == code >= 64 /\ code < 192

\* OptionNumber.is_critical: the lowest bit of the option number
is_critical(number) == number % 2 = 1

----------------------------------------------------------------------------
(* Byte-string helpers.                                                    *)

Min(a, b) == IF a < b THEN a ELSE b

\* the Python slices s[n:] and s[:n], which stop at the end of s
Drop(s, n) == SubSeq(s, Min(n, Len(s)) + 1, Len(s))

Take(s, n) == SubSeq(s, 1, Min(n, Len(s)))

Last(s) == s[Len(s)]

\* int.from_bytes(b, "big")
RECURSIVE from_bytes(_)
from_bytes(b) ==
    IF Len(b) = 0 THEN 0
    ELSE 256 * from_bytes(Take(b, Len(b) - 1)) + Last(b)

RECURSIVE Pow256(_)
Pow256(k) == IF k = 0 THEN 1 ELSE 256 * Pow256(k - 1)

RECURSIVE BigEndian(_, _)
BigEndian(n, k) ==
    IF k = 0 THEN <<>>
    ELSE Append(BigEndian(n \div 256, k - 1), n % 256)

\* int.to_bytes(k, "big"): OverflowError for a negative n and for one that
\* does not fit into k bytes
to_bytes(n, k) ==
    IF n < 0 \/ (k = 0 /\ n > 0) \/ (k > 0 /\ n \div Pow256(k - 1) >= 256)
    THEN [raised |-> "OverflowError", bytes |-> <<>>]
    ELSE [raised |-> "", bytes |-> BigEndian(n, k)]

\* str.encode('utf8') of the diagnostics the module uses
Utf8(s) ==
    CASE s = "Failed to parse message" ->
            <<70, 97, 105, 108, 101, 100, 32, 116, 111, 32, 112, 97, 114, 115,
              101, 32, 109, 101, 115, 115, 97, 103, 101>>
      [] s = "No CSM received" ->
            <<78, 111, 32, 67, 83, 77, 32, 114, 101, 99, 101, 105, 118, 101, 100>>
      [] s = "Unknown signalling code" ->
            <<85, 110, 107, 110, 111, 119, 110, 32, 115, 105, 103, 110, 97, 108,
              108, 105, 110, 103, 32, 99, 111, 100, 101>>
      [] s = "Server shutdown" ->
            <<83, 101, 114, 118, 101, 114, 32, 115, 104, 117, 116, 100, 111, 119, 110>>

----------------------------------------------------------------------------
(* Framing codec.                                                          *)

\* the value None of _extract_message_size
NoSize == <<>>

\* number of extended length bytes of a length nibble >= 13
ExtLen(l) == IF l = 13 THEN 1 ELSE IF l = 14 THEN 2 ELSE 4

\* offset added to the extended length of a length nibble >= 13
ExtOffset(l) == IF l = 13 THEN 13 ELSE IF l = 14 THEN 269 ELSE 65805

\* _extract_message_size: <<tokenoffset, tkl, l>>, or NoSize when data is too
\* short to read the length
extract_message_size(data) ==
    IF Len(data) = 0 THEN NoSize
    ELSE LET l == data[1] \div 16
             tkl == data[1] % 16
         IN  IF l >= 13
             THEN IF Len(data) < ExtLen(l) + 1 THEN NoSize
                  ELSE <<2 + ExtLen(l), tkl,
                         from_bytes(SubSeq(data, 2, 1 + ExtLen(l))) + ExtOffset(l)>>
             ELSE <<2, tkl, l>>

\* a length nibble with the extended bytes int.to_bytes gave, or its exception
encoded_length(nibble, ext) ==
    [raised |-> ext.raised, nibble |-> nibble, ext |-> ext.bytes]

\* _encode_length: the length nibble and the extended length bytes
encode_length(l) ==
    IF l < 13 THEN [raised |-> "", nibble |-> l, ext |-> <<>>]
    ELSE IF l < 269 THEN encoded_length(13, to_bytes(l - 13, 1))
    ELSE IF l < 65535 THEN encoded_length(14, to_bytes(l - 269, 2))
    ELSE encoded_length(15, to_bytes(l - 65805, 4))

----------------------------------------------------------------------------
(* The options region (aiocoap.options, aiocoap.optiontypes): the CoAP     *)
(* option encoding, each option a delta/length byte, extended fields for   *)
(* nibbles 13 and 14, and the option value; 0xFF starts the payload.       *)

\* a Message: code, token, options in ascending option number, payload
Message(code, token, opts, payload) ==
    [code |-> code, token |-> token, opts |-> opts, payload |-> payload]

\* UintOption(number, value): the value in as few big-endian bytes as it takes
RECURSIVE uint_bytes(_)
uint_bytes(n) == IF n = 0 THEN <<>> ELSE Append(uint_bytes(n \div 256), n % 256)

UintOption(number, value) == [number |-> number, value |-> uint_bytes(value)]

\* the nibble and the extended bytes of an option delta or length
write_extended_field_value(v) ==
    IF v < 13 THEN [nibble |-> v, ext |-> <<>>]
    ELSE IF v < 269 THEN [nibble |-> 13, ext |-> BigEndian(v - 13, 1)]
    ELSE [nibble |-> 14, ext |-> BigEndian(v - 269, 2)]

\* reading a delta or length nibble with its extended bytes off rawdata
read_extended_field_value(nibble, rawdata) ==
    IF nibble < 13 THEN [ok |-> TRUE, value |-> nibble, rest |-> rawdata]
    ELSE IF nibble = 13
         THEN IF Len(rawdata) < 1 THEN [ok |-> FALSE, value |-> 0, rest |-> <<>>]
              ELSE [ok |-> TRUE, value |-> rawdata[1] + 13, rest |-> Drop(rawdata, 1)]
    ELSE IF nibble = 14
         THEN IF Len(rawdata) < 2 THEN [ok |-> FALSE, value |-> 0, rest |-> <<>>]
              ELSE [ok |-> TRUE, value |-> from_bytes(Take(rawdata, 2)) + 269,
                    rest |-> Drop(rawdata, 2)]
    ELSE [ok |-> FALSE, value |-> 0, rest |-> <<>>]

\* one option as delta/length/value
option_bytes(o, d, n) == <<16 * d.nibble + n.nibble>> \o d.ext \o n.ext \o o.value

\* Options.encode: the options, in order, as delta/length/value
RECURSIVE opt_encode(_, _)
opt_encode(opts, previous) ==
    IF Len(opts) = 0 THEN <<>>
    ELSE option_bytes(opts[1],
                      write_extended_field_value(opts[1].number - previous),
                      write_extended_field_value(Len(opts[1].value)))
             \o opt_encode(Drop(opts, 1), opts[1].number)

\* Options.decode: the option list and the payload behind the 0xFF marker;
\* not ok stands for UnparsableMessage
RECURSIVE opt_decode(_, _, _)

\* the option whose delta d and length n have been read
opt_decode_value(previous, opts, d, n) ==
    IF ~d.ok \/ ~n.ok THEN [ok |-> FALSE, opts |-> <<>>, payload |-> <<>>]
    ELSE opt_decode(Drop(n.rest, n.value), previous + d.value,
                    Append(opts, [number |-> previous + d.value,
                                  value |-> Take(n.rest, n.value)]))

\* the length of the option whose delta d has been read
opt_decode_length(rawdata, previous, opts, d) ==
    opt_decode_value(previous, opts, d,
                     read_extended_field_value(rawdata[1] % 16, d.rest))

opt_decode(rawdata, previous, opts) ==
    IF Len(rawdata) = 0 THEN [ok |-> TRUE, opts |-> opts, payload |-> <<>>]
    ELSE IF rawdata[1] = 255
         THEN [ok |-> TRUE, opts |-> opts, payload |-> Drop(rawdata, 1)]
    ELSE opt_decode_length(rawdata, previous, opts,
             read_extended_field_value(rawdata[1] \div 16, Drop(rawdata, 1)))

----------------------------------------------------------------------------
(* Frames.                                                                 *)

\* the token length check left out
TokenTooLong_Never(tkl) == FALSE

\* the token length check of _decode_message
TokenTooLong(tkl) == tkl > 8

\* the message _decode_message builds once the options region is decoded
decoded_message(data, tokenoffset, tkl, body) ==
    IF TokenTooLong(tkl) \/ ~body.ok
    THEN [raised |-> "UnparsableMessage", msg |-> Message(0, <<>>, <<>>, <<>>)]
    ELSE [raised |-> "",
          msg |-> Message(data[tokenoffset],
                          SubSeq(data, tokenoffset + 1, tokenoffset + tkl),
                          body.opts, body.payload)]

\* _decode_message with the header fields read
decode_sized(data, tokenoffset, tkl) ==
    decoded_message(data, tokenoffset, tkl,
                    opt_decode(Drop(data, tokenoffset + tkl), 0, <<>>))

\* _decode_message: the message of one complete frame, or UnparsableMessage
decode_message(data) ==
    decode_sized(data, extract_message_size(data)[1], (data[1] % 16))

\* options and payload of a message as _serialize joins them
serialize_data(msg) ==
    opt_encode(msg.opts, 0)
        \o (IF Len(msg.payload) > 0 THEN <<255>> \o msg.payload ELSE <<>>)

\* the frame _serialize joins from the encoded length, the code, the token
\* and the data; ValueError for a token of more than 8 bytes
serialize_frame(msg, data, len) ==
    IF len.raised # "" THEN [raised |-> len.raised, bytes |-> <<>>]
    ELSE IF Len(msg.token) > 8 THEN [raised |-> "ValueError", bytes |-> <<>>]
    ELSE [raised |-> "",
          bytes |-> <<16 * len.nibble + Len(msg.token)>> \o len.ext
                      \o <<msg.code>> \o msg.token \o data]

serialize_with(msg, data) == serialize_frame(msg, data, encode_length(Len(data)))

\* _serialize: the frame of a message, or what _encode_length raises
serialize(msg) == serialize_with(msg, serialize_data(msg))

----------------------------------------------------------------------------
(* TcpConnection.                                                          *)

\* the local maximum message size, 1024 * 1024
MyMaxMessageSize == 1048576

\* _remote_settings = None
NoSettings ==
    [known |-> FALSE, max_message_size |-> -1, block_wise_transfer |-> FALSE]

\* the arguments errormessage=None and bad_csm_option=None of abort
NoDiagnostic == "None"

NoOption == -1

\* no connection_lost call yet: the exception it would carry, and whether the
\* connection was a pool entry when it was called
NoLoss == [oserror |-> FALSE, errno |-> 0, pooled |-> FALSE]

\* abort has not been invoked yet; once it is, the numbers of messages decoded
\* and forwarded and of frames written, and the remote settings, as abort
\* left them
NotAborted ==
    [invoked |-> FALSE, decoded |-> 0, tm |-> 0, written |-> 0,
     remote_settings |-> NoSettings]

\* TcpConnection.__init__, with the transport the event loop pairs it with
\* (the frames written to it, the number of close() calls), the calls it made
\* to the token manager (process_request and process_response in tm, the codes
\* of dispatch_error in errors), the messages it decoded, the exception that left its
\* last callback, whether connection_lost was called, and the state the first
\* abort left
TcpConnection(ctx) ==
    [ctx |-> ctx, made |-> FALSE, spool |-> <<>>,
     my_max_message_size |-> MyMaxMessageSize, remote_settings |-> NoSettings,
     written |-> <<>>, closes |-> 0, tm |-> <<>>, errors |-> <<>>,
     decoded |-> <<>>, raised |-> "", lost |-> FALSE, loss |-> NoLoss,
     at_abort |-> NotAborted]

\* transport.write of a frame, unless _serialize raised; before
\* connection_made there is no _transport
write_frame(c, frame) ==
    IF frame.raised # "" THEN [c EXCEPT !.raised = frame.raised]
    ELSE IF ~c.made THEN [c EXCEPT !.raised = "AttributeError"]
    ELSE [c EXCEPT !.written = Append(@, frame.bytes)]

\* _send_message
send_message_to(c, msg) == write_frame(c, serialize(msg))

\* the abort frame abort builds from a diagnostic
abort_msg(errormessage) ==
    Message(ABORT, <<>>, <<>>,
            IF errormessage = NoDiagnostic THEN <<>> ELSE Utf8(errormessage))

\* transport.close() behind the _send_message of abort, unless that raised
close_transport(c) == IF c.raised # "" THEN c ELSE [c EXCEPT !.closes = @ + 1]

\* abort: with a bad_csm_option the undefined name block_length is read,
\* which raises NameError before anything is written or closed; otherwise the
\* abort frame is written and the transport closed
abort_call(c, errormessage, bad_csm_option) ==
    IF bad_csm_option # NoOption THEN [c EXCEPT !.raised = "NameError"]
    ELSE close_transport(send_message_to(c, abort_msg(errormessage)))

\* the record of what the first call of abort left
first_abort(c, c1) ==
    IF c.at_abort.invoked THEN c1
    ELSE [c1 EXCEPT !.at_abort =
             [invoked |-> TRUE, decoded |-> Len(c1.decoded), tm |-> Len(c1.tm),
              written |-> Len(c1.written), remote_settings |-> c1.remote_settings]]

\* abort
abort(c, errormessage, bad_csm_option) ==
    first_abort(c, abort_call(c, errormessage, bad_csm_option))

\* _send_initial_csm
send_initial_csm(c) ==
    send_message_to(c, Message(CSM, <<>>,
        <<UintOption(2, c.my_max_message_size), UintOption(4, 0)>>, <<>>))

\* a connection_made that keeps the transport and announces nothing
connection_made_Silent(c) == [c EXCEPT !.made = TRUE]

\* connection_made
connection_made(c) == send_initial_csm([c EXCEPT !.made = TRUE])

\* a CSM option handling in which option 2 starts the settings afresh
csm_option_Afresh(c, opt) ==
    IF opt.number = 2
    THEN [c EXCEPT !.remote_settings =
             [known |-> TRUE, max_message_size |-> from_bytes(opt.value),
              block_wise_transfer |-> FALSE]]
    ELSE IF opt.number = 4
    THEN [c EXCEPT !.remote_settings.block_wise_transfer = TRUE]
    ELSE IF is_critical(opt.number) THEN abort(c, NoDiagnostic, opt.number)
    ELSE c

\* one option of a CSM in _process_signaling
csm_option(c, opt) ==
    IF opt.number = 2
    THEN [c EXCEPT !.remote_settings.max_message_size = from_bytes(opt.value)]
    ELSE IF opt.number = 4
    THEN [c EXCEPT !.remote_settings.block_wise_transfer = TRUE]
    ELSE IF is_critical(opt.number) THEN abort(c, NoDiagnostic, opt.number)
    ELSE c

\* the option loop of a CSM in _process_signaling
RECURSIVE csm_options(_, _)

\* the loop goes on with the next option unless the last one raised
csm_next(c, opts) ==
    IF c.raised # "" THEN c ELSE csm_options(c, Drop(opts, 1))

csm_options(c, opts) ==
    IF Len(opts) = 0 THEN c ELSE csm_next(csm_option(c, opts[1]), opts)

\* one option of a PING, PONG, RELEASE or ABORT in _process_signaling
other_option(c, opt) ==
    IF is_critical(opt.number) THEN abort(c, NoDiagnostic, opt.number) ELSE c

\* the option loop of PING, PONG, RELEASE and ABORT in _process_signaling
RECURSIVE other_options(_, _)

other_next(c, opts) ==
    IF c.raised # "" THEN c ELSE other_options(c, Drop(opts, 1))

other_options(c, opts) ==
    IF Len(opts) = 0 THEN c ELSE other_next(other_option(c, opts[1]), opts)

\* a pong that does not echo the token of the ping
pong_for_NoToken(msg) == Message(PONG, <<>>, <<>>, <<>>)

\* the pong _process_signaling answers a ping with
pong_for(msg) == Message(PONG, msg.token, <<>>, <<>>)

\* what _process_signaling does with a PING, PONG, RELEASE or ABORT behind
\* the option loop
signal_action(c, msg) ==
    IF c.raised # "" THEN c
    ELSE IF msg.code = PING THEN send_message_to(c, pong_for(msg))
    ELSE IF msg.code = PONG THEN c
    ELSE [c EXCEPT !.raised = "NotImplementedError"]

\* _process_signaling
process_signaling(c, msg) ==
    IF msg.code = CSM
    THEN csm_options([c EXCEPT !.remote_settings.known = TRUE], msg.opts)
    ELSE IF msg.code \in {PING, PONG, RELEASE, ABORT}
    THEN signal_action(other_options(c, msg.opts), msg)
    ELSE abort(c, "Unknown signalling code", NoOption)

\* a _dispatch_incoming that hands every message to the token manager twice
dispatch_incoming_Twice(c, msg, held) ==
    [c EXCEPT !.tm = @ \o <<[call |-> "process_request", msg |-> msg],
                            [call |-> "process_request", msg |-> msg]>>]

\* _TCPPooling._dispatch_incoming; held is whether the pool still has its
\* _tokenmanager attribute
dispatch_incoming(c, msg, held) ==
    IF ~held THEN [c EXCEPT !.raised = "AttributeError"]
    ELSE IF is_response(msg.code)
    THEN [c EXCEPT !.tm = Append(@, [call |-> "process_response", msg |-> msg])]
    ELSE [c EXCEPT !.tm = Append(@, [call |-> "process_request", msg |-> msg])]

\* the oversize test left out: the connection waits for the whole frame
IsOversize_Never(msglen, limit) == FALSE

\* the oversize test of data_received
IsOversize(msglen, limit) == msglen > limit

\* the capability test left out: every application message passes
CapabilityMissing_Never(c) == FALSE

\* the capability test of data_received
CapabilityMissing(c) == ~c.remote_settings.known

\* the while loop of data_received
RECURSIVE receive_loop(_, _)

\* the end of an iteration: the loop goes on unless an exception left
\* _process_signaling or _dispatch_incoming
receive_next(c, held) == IF c.raised # "" THEN c ELSE receive_loop(c, held)

\* the iteration behind the decoding: the frame leaves the buffer, a
\* signalling message is handled, an application message is dispatched if
\* the remote settings are known
receive_message(c, msg, held) ==
    IF is_signalling(msg.code) THEN receive_next(process_signaling(c, msg), held)
    ELSE IF CapabilityMissing(c) THEN abort(c, "No CSM received", NoOption)
    ELSE receive_next(dispatch_incoming(c, msg, held), held)

\* the iteration behind _decode_message
receive_decoded(c, msglen, decoded, held) ==
    IF decoded.raised # "" THEN abort(c, "Failed to parse message", NoOption)
    ELSE receive_message([c EXCEPT !.spool = Drop(@, msglen),
                                   !.decoded = Append(@, decoded.msg)],
                         decoded.msg, held)

\* the iteration behind the sum of the three sizes
receive_frame(c, msglen, held) ==
    IF IsOversize(msglen, c.my_max_message_size)
    THEN abort(c, NoDiagnostic, NoOption)
    ELSE IF msglen > Len(c.spool) THEN c
    ELSE receive_decoded(c, msglen, decode_message(Take(c.spool, msglen)), held)

\* the iteration behind _extract_message_size
receive_sized(c, size, held) ==
    IF size = NoSize THEN c
    ELSE receive_frame(c, size[1] + size[2] + size[3], held)

receive_loop(c, held) == receive_sized(c, extract_message_size(c.spool), held)

\* data_received
data_received(c, data, held) ==
    receive_loop([c EXCEPT !.spool = @ \o data], held)

----------------------------------------------------------------------------
(* The connection under test: one connection, the bytes of its peer        *)
(* delivered by the event loop in chunks of any size.                      *)

\* the connection whose inbound bytes are modelled
FeedConn == 1

\* frames a peer may send
FrameCSM == <<48, CSM, 33, 64, 32>>             \* options 2 (= 64) and 4
FrameCSMElective == <<16, CSM, 96>>             \* unknown elective option 6
FrameCSMSize == <<32, CSM, 33, 32>>             \* option 2 (= 32) only
FrameCSMCritical == <<48, CSM, 33, 64, 16>>     \* option 2, unknown critical option 3
FramePing == <<1, PING, 7>>                     \* token 07
FramePingCritical == <<17, PING, 8, 16>>        \* token 08, unknown critical option 1
FramePong == <<0, PONG>>
FrameRelease == <<0, RELEASE>>
FrameUnknownSignal == <<0, 230>>                \* signalling code 7.06
FrameRequest == <<1, 1, 9>>                     \* GET, token 09
FrameResponse == <<32, 69, 255, 65>>            \* 2.05, payload "A"
FrameLongToken == <<9, 1, 1, 2, 3, 4, 5, 6, 7, 8, 9>>   \* declares 9 token bytes
FrameOversize == <<240, 0, 15, 0, 0>>           \* prefix of a frame of 1048851 bytes

PeerFrames ==
    {FrameCSM, FrameCSMElective, FrameCSMSize, FrameCSMCritical, FramePing,
     FramePingCritical,
     FramePong,
     FrameRelease, FrameUnknownSignal, FrameRequest, FrameResponse,
     FrameLongToken, FrameOversize}

RECURSIVE Concat(_)
Concat(fs) == IF Len(fs) = 0 THEN <<>> ELSE fs[1] \o Concat(Tail(fs))

\* the byte streams of up to MaxFrames frames out of a set of frames
Streams(frames) ==
    {Concat(fs) : fs \in UNION {[1..n -> frames] : n \in 0..MaxFrames}}

\* messages the application may send
OutMessages ==
    {Message(1, <<5>>, <<>>, <<65>>),
     Message(1, <<1, 2, 3, 4, 5, 6, 7, 8, 9>>, <<>>, <<>>)}

Pools == {"client", "server"}

\* encode_length has not been called yet
NotCalled == [raised |-> "not called", nibble |-> 0, ext |-> <<>>]

\* serialize has not been called yet
NotSerialized == [raised |-> "not called", bytes |-> <<>>]

\* decode_message has not been called yet
NotDecoded == [raised |-> "not called", msg |-> Message(0, <<>>, <<>>, <<>>)]

\* no frame is being encoded
FrameIdle ==
    /\ frame_msg = Message(0, <<>>, <<>>, <<>>)
    /\ frame_enc = NotSerialized
    /\ frame_size = NoSize
    /\ frame_dec = NotDecoded

\* the resolve calls the token manager may make
Tasks == 1..MaxTasks

\* a fill_or_recognize_remote call that has not started: no message yet
IdleTask ==
    [pc |-> "idle",
     message |-> [unresolved_remote |-> "", uri_host |-> "", uri_port |-> 0],
     key |-> <<"None", 0>>, protocol |-> 0, result |-> 0]

\* no pool activity: empty pools, no resolve call, the server listening
PoolsIdle ==
    /\ client_pool = <<>>
    /\ server_pool = {}
    /\ tasks = [t \in Tasks |-> IdleTask]
    /\ server = [listening |-> TRUE, shutdown |-> "no"]

\* one connection, constructed, and the bytes its peer is going to send
OneConnection(frames) ==
    /\ conns = <<TcpConnection("client")>>
    /\ PoolsIdle
    /\ stream \in Streams(frames)
    /\ pos = 0
    /\ sends = <<>>
    /\ tokenmanager = [p \in Pools |-> TRUE]
    /\ len_n = 0
    /\ len_enc = NotCalled
    /\ len_dec = NoSize
    /\ FrameIdle

ConnInit == OneConnection(PeerFrames)

\* the event loop calls connection_made once the stream is available
ConnectionMade(c) ==
    /\ c \in DOMAIN conns
    /\ ~conns[c].made
    /\ conns' = [conns EXCEPT ![c] = connection_made(@)]
    /\ UNCHANGED <<stream, pos, sends, tokenmanager, poolvars, lenvars>>

\* the event loop may deliver bytes to a connection while its transport is
\* open: after connection_made, before close(), and not after an exception
\* left a callback, which the loop treats as a fatal error of the transport
Readable(c) ==
    conns[c].made /\ ~conns[c].lost /\ conns[c].closes = 0 /\ conns[c].raised = ""

\* the event loop calls data_received with the next n bytes of the stream
DataReceived(c, n) ==
    /\ c = FeedConn
    /\ c \in DOMAIN conns
    /\ Readable(c)
    /\ n \in 1..(Len(stream) - pos)
    /\ conns' = [conns EXCEPT ![c] =
                    data_received(@, SubSeq(stream, pos + 1, pos + n),
                                  tokenmanager[@.ctx])]
    /\ pos' = pos + n
    /\ UNCHANGED <<stream, sends, tokenmanager, poolvars, lenvars>>

\* the record of a send_message call: the message, the exception that
\* reached the caller, the number of frames written
sent(c, c1, msg) ==
    [msg |-> msg, raised |-> c1.raised, wrote |-> Len(c1.written) - Len(c.written)]

\* _TCPPooling.send_message: an exception of _send_message reaches the caller
SendMessage(c, msg) ==
    /\ c \in DOMAIN conns
    /\ conns[c].made
    /\ Len(sends) < MaxSends
    /\ conns' = [conns EXCEPT ![c].written = send_message_to(conns[c], msg).written]
    /\ sends' = Append(sends, sent(conns[c], send_message_to(conns[c], msg), msg))
    /\ UNCHANGED <<stream, pos, tokenmanager, poolvars, lenvars>>

ConnNext ==
    \/ ConnectionMade(FeedConn)
    \/ \E n \in 1..Len(stream) : DataReceived(FeedConn, n)

SpecConn == ConnInit /\ [][ConnNext]_vars

\* the same connection with an application that sends on it; the peer's
\* frames are the ones that matter to the token length
SendFrames ==
    {FrameCSM, FramePing, FrameRequest, FrameLongToken, FrameUnknownSignal}

SendInit == OneConnection(SendFrames)

SendNext ==
    \/ ConnectionMade(FeedConn)
    \/ \E n \in 1..Len(stream) : DataReceived(FeedConn, n)
    \/ \E msg \in OutMessages : SendMessage(FeedConn, msg)

SpecSend == SendInit /\ [][SendNext]_vars

----------------------------------------------------------------------------
(* The length codec on its own: a body length is encoded by _encode_length *)
(* and the header made of it is read back by _extract_message_size.        *)

\* the thresholds of the length encoding
LengthThresholds == {13, 269, 65535, 65805}

\* the body lengths tried: around every threshold, the smallest ones, and two
\* large ones
Lengths ==
    (0..Near) \cup {t + d : t \in LengthThresholds, d \in (0 - Near)..Near}
        \cup {1048576, 2147483647}

LenInit ==
    /\ conns = <<>>
    /\ PoolsIdle
    /\ stream = <<>>
    /\ pos = 0
    /\ sends = <<>>
    /\ tokenmanager = [p \in Pools |-> TRUE]
    /\ len_n \in Lengths
    /\ len_enc = NotCalled
    /\ len_dec = NoSize
    /\ FrameIdle

\* _serialize calls _encode_length with the length of options plus payload
EncodeLength ==
    /\ len_enc = NotCalled
    /\ len_enc' = encode_length(len_n)
    /\ UNCHANGED <<conns, stream, pos, sends, tokenmanager, poolvars, len_n, len_dec,
                   framevars>>

\* the header _serialize makes of the encoded length and a token length, read
\* by _extract_message_size
MeasureHeader(tkl) ==
    /\ len_enc.raised = ""
    /\ len_dec = NoSize
    /\ len_dec' = extract_message_size(<<16 * len_enc.nibble + tkl>> \o len_enc.ext)
    /\ UNCHANGED <<conns, stream, pos, sends, tokenmanager, poolvars, len_n, len_enc,
                   framevars>>

LenNext ==
    \/ EncodeLength
    \/ \E tkl \in 0..8 : MeasureHeader(tkl)

SpecLen == LenInit /\ [][LenNext]_vars

----------------------------------------------------------------------------
(* Whole frames on their own: a message is serialized by _serialize, and   *)
(* the frame is measured by _extract_message_size and decoded by           *)
(* _decode_message.                                                        *)

\* the lengths of options plus payload tried: the smallest ones and those
\* around every threshold of the length encoding
BodyLengths ==
    (0..Near) \cup {t + d : t \in LengthThresholds, d \in (0 - Near)..Near}

\* a payload of n bytes, every byte value among them
PayloadOf(n) == [i \in 1..n |-> i % 256]

\* a message whose options and payload take n bytes on the wire: no options
\* (a payload takes its marker byte as well), or, from 4 bytes on, option 11
\* with a value of one byte before the payload
MessageOfLength(code, token, n, withopt) ==
    IF n = 0 THEN Message(code, token, <<>>, <<>>)
    ELSE IF n = 1 THEN Message(code, token, <<[number |-> 6, value |-> <<>>]>>, <<>>)
    ELSE IF withopt /\ n >= 4
    THEN Message(code, token, <<[number |-> 11, value |-> <<47>>]>>, PayloadOf(n - 3))
    ELSE Message(code, token, <<>>, PayloadOf(n - 1))

\* valid messages: tokens of 0, 1 and 8 bytes, request, response and
\* signalling codes
FrameMessages ==
    {MessageOfLength(1, <<>>, n, FALSE) : n \in BodyLengths}
        \cup {MessageOfLength(69, <<1, 2, 3, 4, 5, 6, 7, 8>>, n, TRUE) : n \in BodyLengths}
        \cup {MessageOfLength(CSM, <<7>>, n, TRUE) : n \in BodyLengths}
        \cup {MessageOfLength(0, <<255, 0>>, n, FALSE) : n \in BodyLengths}

FrameInit ==
    /\ conns = <<>>
    /\ PoolsIdle
    /\ stream = <<>>
    /\ pos = 0
    /\ sends = <<>>
    /\ tokenmanager = [p \in Pools |-> TRUE]
    /\ len_n = 0
    /\ len_enc = NotCalled
    /\ len_dec = NoSize
    /\ frame_msg \in FrameMessages
    /\ frame_enc = NotSerialized
    /\ frame_size = NoSize
    /\ frame_dec = NotDecoded

\* _serialize is called with the message
SerializeFrame ==
    /\ frame_enc = NotSerialized
    /\ frame_enc' = serialize(frame_msg)
    /\ UNCHANGED <<conns, stream, pos, sends, tokenmanager, poolvars, len_n,
                   len_enc, len_dec, frame_msg, frame_size, frame_dec>>

\* _extract_message_size is called with the frame
MeasureFrame ==
    /\ frame_enc.raised = ""
    /\ frame_size = NoSize
    /\ frame_size' = extract_message_size(frame_enc.bytes)
    /\ UNCHANGED <<conns, stream, pos, sends, tokenmanager, poolvars, len_n,
                   len_enc, len_dec, frame_msg, frame_enc, frame_dec>>

\* _decode_message is called with the frame
DecodeFrame ==
    /\ frame_enc.raised = ""
    /\ frame_dec = NotDecoded
    /\ frame_dec' = decode_message(frame_enc.bytes)
    /\ UNCHANGED <<conns, stream, pos, sends, tokenmanager, poolvars, len_n,
                   len_enc, len_dec, frame_msg, frame_enc, frame_size>>

FrameNext ==
    \/ SerializeFrame
    \/ MeasureFrame
    \/ DecodeFrame

SpecFrame == FrameInit /\ [][FrameNext]_vars

----------------------------------------------------------------------------
(* The pools: TCPClient, TCPServer and what they share, _TCPPooling.       *)

COAP_PORT == 5683

\* outgoing messages by destination: the unresolved remote (a netloc string
\* or None), and the Uri-Host and Uri-Port options (None: "None" and 0)
Destination(unresolved_remote, uri_host, uri_port) ==
    [unresolved_remote |-> unresolved_remote, uri_host |-> uri_host,
     uri_port |-> uri_port]

OutDestinations ==
    {Destination("None", "h", 0), Destination("None", "h", 5684),
     Destination("h:5683", "None", 0), Destination("None", "None", 0),
     Destination(":5683", "None", 0)}

\* urllib.parse.SplitResult(None, netloc, None, None, None): hostname and port
SplitNetloc(netloc) ==
    CASE netloc = "h:5683" -> [hostname |-> "h", port |-> 5683]
      [] netloc = "h" -> [hostname |-> "h", port |-> 0]
      [] netloc = ":5683" -> [hostname |-> "None", port |-> 5683]
      [] OTHER -> [hostname |-> "None", port |-> 0]

\* the first part of _spawn_protocol: host and port of a message, or
\* ValueError when there is neither an unresolved remote nor a Uri-Host
spawn_key(message) ==
    IF message.unresolved_remote = "None"
    THEN [raised |-> IF message.uri_host = "None" THEN "ValueError" ELSE "",
          key |-> <<message.uri_host,
                    IF message.uri_port # 0 THEN message.uri_port ELSE COAP_PORT>>]
    ELSE LET pseudoparsed == SplitNetloc(message.unresolved_remote)
         IN  [raised |-> "",
              key |-> <<pseudoparsed.hostname,
                        IF pseudoparsed.port # 0 THEN pseudoparsed.port
                        ELSE COAP_PORT>>]

\* self._pool[(host, port)] = protocol
pool_put(pool, key, protocol) ==
    [k \in DOMAIN pool \cup {key} |-> IF k = key THEN protocol ELSE pool[k]]

\* TCPClient._evict_from_pool: every key of the connection goes
client_evict(pool, connection) ==
    [k \in {x \in DOMAIN pool : pool[x] # connection} |-> pool[k]]

\* the connections of the client pool
PoolValues(pool) == {pool[k] : k \in DOMAIN pool}

\* whether a connection is an entry of its pool
Pooled(c) ==
    IF conns[c].ctx = "client" THEN c \in PoolValues(client_pool)
    ELSE c \in server_pool

\* _spawn_protocol up to its await: a pool hit returns the pooled connection,
\* otherwise the call suspends in loop.create_connection
SpawnStart(t, message) ==
    /\ tasks[t].pc = "idle"
    /\ tokenmanager["client"]
    /\ LET k == spawn_key(message)
       IN  tasks' = [tasks EXCEPT ![t] =
              IF k.raised # "" THEN [@ EXCEPT !.pc = k.raised, !.message = message]
              ELSE IF k.key \in DOMAIN client_pool
              THEN [@ EXCEPT !.pc = "done", !.message = message, !.key = k.key,
                             !.result = client_pool[k.key]]
              ELSE [@ EXCEPT !.pc = "connecting", !.message = message,
                             !.key = k.key]]
    /\ UNCHANGED <<conns, stream, pos, sends, tokenmanager, client_pool,
                   server_pool, server, lenvars>>

\* loop.create_connection has the stream and calls the protocol factory
Connect(t) ==
    /\ tasks[t].pc = "connecting"
    /\ Len(conns) < MaxConns
    /\ conns' = Append(conns, TcpConnection("client"))
    /\ tasks' = [tasks EXCEPT ![t].pc = "created", ![t].protocol = Len(conns) + 1]
    /\ UNCHANGED <<stream, pos, sends, tokenmanager, client_pool, server_pool,
                   server, lenvars>>

\* _spawn_protocol after its await: the new connection is filed under the
\* key, whatever is filed there by now
SpawnResume(t) ==
    /\ tasks[t].pc = "created"
    /\ conns[tasks[t].protocol].made
    /\ client_pool' = pool_put(client_pool, tasks[t].key, tasks[t].protocol)
    /\ tasks' = [tasks EXCEPT ![t].pc = "done", ![t].result = tasks[t].protocol]
    /\ UNCHANGED <<conns, stream, pos, sends, tokenmanager, server_pool, server,
                   lenvars>>

\* new_connection, the protocol factory of the listening endpoint
Accept ==
    /\ server.listening
    /\ Len(conns) < MaxConns
    /\ conns' = Append(conns, TcpConnection("server"))
    /\ server_pool' = server_pool \cup {Len(conns) + 1}
    /\ UNCHANGED <<stream, pos, sends, tokenmanager, client_pool, tasks, server,
                   lenvars>>

\* the exceptions connection_lost is called with: None or an exception that
\* is no OSError, and OSErrors with their errno
LossReasons ==
    {[oserror |-> FALSE, errno |-> 0], [oserror |-> TRUE, errno |-> 104]}

\* the code _dispatch_error hands to the token manager
error_code(exc) == IF exc.oserror THEN exc.errno ELSE 0

\* connection_lost, _dispatch_error and _evict_from_pool: the connection is
\* evicted (the server's set.remove raises KeyError for a connection that is
\* not in it), then the token manager is told, if the pool still has one
ConnectionLost(c, exc) ==
    /\ c \in DOMAIN conns
    /\ conns[c].made
    /\ ~conns[c].lost
    /\ \A t \in Tasks : ~(tasks[t].pc = "created" /\ tasks[t].protocol = c)
    /\ LET ctx == conns[c].ctx
           keyerror == ctx = "server" /\ c \notin server_pool
           lost == [conns[c] EXCEPT !.lost = TRUE,
                       !.loss = [oserror |-> exc.oserror, errno |-> exc.errno,
                                 pooled |-> Pooled(c)]]
       IN  /\ client_pool' = IF ctx = "client" THEN client_evict(client_pool, c)
                             ELSE client_pool
           /\ server_pool' = IF ctx = "server" THEN server_pool \ {c}
                             ELSE server_pool
           /\ conns' = [conns EXCEPT ![c] =
                  IF keyerror THEN [lost EXCEPT !.raised = "KeyError"]
                  ELSE IF ~tokenmanager[ctx]
                  THEN [lost EXCEPT !.raised = "AttributeError"]
                  ELSE [lost EXCEPT !.errors = Append(@, error_code(exc))]]
    /\ UNCHANGED <<stream, pos, sends, tokenmanager, tasks, server, lenvars>>

\* the loop "for c in pool: c.abort('Server shutdown')" over the connections
\* in the order given; it ends at the first abort that raises
RECURSIVE abort_each(_, _)

\* the loop behind one abort: an exception of abort leaves shutdown, and the
\* exception a callback of the connection raised earlier stays on record
abort_next(cs, order, c1) ==
    IF c1.raised # "" THEN [conns |-> cs, raised |-> c1.raised]
    ELSE abort_each([cs EXCEPT ![order[1]] =
                        [c1 EXCEPT !.raised = cs[order[1]].raised]],
                    Tail(order))

abort_each(cs, order) ==
    IF Len(order) = 0 THEN [conns |-> cs, raised |-> ""]
    ELSE abort_next(cs, order,
                    abort([cs[order[1]] EXCEPT !.raised = ""],
                          "Server shutdown", NoOption))

\* the orders in which a set of connections may be iterated
Orders(S) ==
    {o \in [1..Cardinality(S) -> S] : \A i, j \in DOMAIN o : i # j => o[i] # o[j]}

\* TCPClient.shutdown: every pooled connection is aborted and the token
\* manager released, without a suspension in between
ClientShutdown(order) ==
    /\ tokenmanager["client"]
    /\ order \in Orders(PoolValues(client_pool))
    /\ conns' = abort_each(conns, order).conns
    /\ tokenmanager' = [tokenmanager EXCEPT
                           !["client"] = abort_each(conns, order).raised # ""]
    /\ UNCHANGED <<stream, pos, sends, client_pool, server_pool, tasks, server,
                   lenvars>>

\* where TCPServer.shutdown is behind the abort loop: left by an exception,
\* or suspended in server.wait_closed()
shutdown_state(raised) == IF raised # "" THEN raised ELSE "waiting"

\* TCPServer.shutdown up to its await: the listening endpoint is closed and
\* the pooled connections are aborted
ServerShutdownStart(order) ==
    /\ server.shutdown = "no"
    /\ order \in Orders(server_pool)
    /\ conns' = abort_each(conns, order).conns
    /\ server' = [listening |-> FALSE,
                  shutdown |-> shutdown_state(abort_each(conns, order).raised)]
    /\ UNCHANGED <<stream, pos, sends, tokenmanager, client_pool, server_pool,
                   tasks, lenvars>>

\* TCPServer.shutdown after server.wait_closed(): the token manager is released
ServerShutdownFinish ==
    /\ server.shutdown = "waiting"
    /\ server' = [server EXCEPT !.shutdown = "done"]
    /\ tokenmanager' = [tokenmanager EXCEPT !["server"] = FALSE]
    /\ UNCHANGED <<conns, stream, pos, sends, client_pool, server_pool, tasks,
                   lenvars>>

PoolInit ==
    /\ conns = <<>>
    /\ stream = <<>>
    /\ pos = 0
    /\ sends = <<>>
    /\ tokenmanager = [p \in Pools |-> TRUE]
    /\ PoolsIdle
    /\ len_n = 0
    /\ len_enc = NotCalled
    /\ len_dec = NoSize
    /\ FrameIdle

PoolNext ==
    \/ \E t \in Tasks, message \in OutDestinations : SpawnStart(t, message)
    \/ \E t \in Tasks : Connect(t)
    \/ \E t \in Tasks : SpawnResume(t)
    \/ Accept
    \/ \E c \in 1..MaxConns : ConnectionMade(c)
    \/ \E c \in 1..MaxConns, exc \in LossReasons : ConnectionLost(c, exc)
    \/ \E order \in Orders(PoolValues(client_pool)) : ClientShutdown(order)
    \/ \E order \in Orders(server_pool) : ServerShutdownStart(order)
    \/ ServerShutdownFinish

SpecPool == PoolInit /\ [][PoolNext]_vars

\* the client pool while the peer of its first connection sends frames: the
\* resolve calls, the connections they create, the bytes read on the first
\* connection and the loss of connections
ClientFrames == {FrameCSM, FrameRequest}

ClientInit ==
    /\ conns = <<>>
    /\ stream \in Streams(ClientFrames)
    /\ pos = 0
    /\ sends = <<>>
    /\ tokenmanager = [p \in Pools |-> TRUE]
    /\ PoolsIdle
    /\ len_n = 0
    /\ len_enc = NotCalled
    /\ len_dec = NoSize
    /\ FrameIdle

ClientNext ==
    \/ \E t \in Tasks, message \in OutDestinations : SpawnStart(t, message)
    \/ \E t \in Tasks : Connect(t)
    \/ \E t \in Tasks : SpawnResume(t)
    \/ \E c \in 1..MaxConns : ConnectionMade(c)
    \/ \E n \in 1..Len(stream) : DataReceived(FeedConn, n)
    \/ \E c \in 1..MaxConns, exc \in LossReasons : ConnectionLost(c, exc)

SpecClient == ClientInit /\ [][ClientNext]_vars

----------------------------------------------------------------------------
(* Properties of one connection.                                           *)

IsApplication(m) == ~is_signalling(m.code)

\* the messages a connection handed to the token manager, in order
Forwarded(c) == [k \in DOMAIN c.tm |-> c.tm[k].msg]

\* the frames a connection wrote, decoded
WrittenMessages(c) == [k \in DOMAIN c.written |-> decode_message(c.written[k]).msg]

IsAbortFrame(m) == m.code = ABORT

IsPongFrame(m) == m.code = PONG

\* an application message was decoded with no capability announce before it
AppBeforeCSM(c) ==
    \E i \in DOMAIN c.decoded :
        /\ IsApplication(c.decoded[i])
        /\ \A j \in 1..(i - 1) : c.decoded[j].code # CSM

\* C1: an application message reaches the token manager only after a
\* capability announce was processed on the connection.  The first application
\* message decoded while the remote settings are unknown aborts the connection
\* with the diagnostic "No CSM received", is the last message processed and is
\* not forwarded (nothing is); after a capability announce every application
\* message decoded is forwarded, in order.
C1_CapabilityGating ==
    LET c == conns[FeedConn]
    IN  /\ Forwarded(c) = IF AppBeforeCSM(c) THEN <<>>
                          ELSE SelectSeq(c.decoded, IsApplication)
        /\ c.tm # <<>> => c.remote_settings.known
        /\ AppBeforeCSM(c) =>
              /\ c.closes >= 1
              /\ IsApplication(Last(c.decoded))
              /\ \E k \in DOMAIN c.written :
                    WrittenMessages(c)[k] =
                        Message(ABORT, <<>>, <<>>, Utf8("No CSM received"))

\* a capability announce came first and two application messages behind it
\* were forwarded
C1_Witness ==
    LET c == conns[FeedConn]
    IN  /\ Len(c.decoded) >= 1
        /\ c.decoded[1].code = CSM
        /\ Len(c.tm) = 2

\* an application message arrived first and the connection was aborted for it
C1_WitnessAbort ==
    LET c == conns[FeedConn]
    IN  AppBeforeCSM(c) /\ c.closes = 1 /\ c.tm = <<>>

\* what the connection does with the whole stream handed over in one read
OneRead == data_received(connection_made(TcpConnection("client")), stream, TRUE)

\* no more bytes are going to be delivered: all were, or the transport closed
Delivered ==
    conns[FeedConn].made /\ (pos = Len(stream) \/ ~Readable(FeedConn))

C5_AbortTerminal ==
    LET c == conns[FeedConn]
    IN  c.at_abort.invoked =>
            /\ Len(c.decoded) = c.at_abort.decoded
            /\ Len(c.tm) = c.at_abort.tm
            /\ \A k \in DOMAIN c.written :
                  k > c.at_abort.written => ~IsPongFrame(WrittenMessages(c)[k])
            /\ c.remote_settings = c.at_abort.remote_settings

\* an option of a capability announce that is neither 2 nor 4 and critical
IsBadCSMOption(o) == o.number \notin {2, 4} /\ is_critical(o.number)

HasBadCSMOption(m) == \E i \in DOMAIN m.opts : IsBadCSMOption(m.opts[i])

\* C6: a capability announce with a critical option other than 2 and 4 makes
\* the connection write an abort frame that carries the number of that option
\* and close the stream; capability announces whose unknown options are all
\* elective are accepted: nothing is written, the stream stays open.
C6_CriticalOptionAbort ==
    LET c == conns[FeedConn]
    IN  /\ \A i \in DOMAIN c.decoded :
              (c.decoded[i].code = CSM /\ HasBadCSMOption(c.decoded[i])) =>
                  /\ c.closes >= 1
                  /\ \E k \in DOMAIN c.written, j \in DOMAIN c.decoded[i].opts :
                        /\ IsBadCSMOption(c.decoded[i].opts[j])
                        /\ IsAbortFrame(WrittenMessages(c)[k])
                        /\ \E o \in DOMAIN WrittenMessages(c)[k].opts :
                              from_bytes(WrittenMessages(c)[k].opts[o].value)
                                  = c.decoded[i].opts[j].number
        /\ ( /\ c.decoded # <<>>
             /\ c.spool = <<>>
             /\ \A i \in DOMAIN c.decoded :
                   c.decoded[i].code = CSM /\ ~HasBadCSMOption(c.decoded[i]) )
           => (c.closes = 0 /\ Len(c.written) = 1 /\ c.raised = ""
               /\ c.remote_settings.known)

\* the messages of a byte string that is a sequence of complete frames
RECURSIVE FramesOf(_)
FramesOf(b) ==
    IF Len(b) = 0 THEN <<>>
    ELSE LET size == extract_message_size(b)
             msglen == size[1] + size[2] + size[3]
         IN  <<decode_message(Take(b, msglen)).msg>> \o FramesOf(Drop(b, msglen))

\* the accumulation buffer starts with the length prefix of a frame longer
\* than the local maximum message size
OversizeAhead(c) ==
    LET size == extract_message_size(c.spool)
    IN  size # NoSize /\ size[1] + size[2] + size[3] > MyMaxMessageSize

\* C7: when the buffer starts with the length prefix of a frame longer than
\* the local maximum (1 MiB), then, unless an exception ended the read before
\* the prefix was looked at, the connection is aborted although the body of
\* the frame has not arrived: the stream is closed and the last frame written
\* is the abort frame of the oversize guard, or that of the missing capability
\* announce which ended the read just before.  The frame and all bytes behind
\* it are still in the buffer, the messages decoded are those of the bytes
\* before it, and only those can have been forwarded.
C7_OversizeGuard ==
    LET c == conns[FeedConn]
    IN  /\ c.spool = SubSeq(stream, pos - Len(c.spool) + 1, pos)
        /\ c.decoded = FramesOf(Take(stream, pos - Len(c.spool)))
        /\ Len(c.tm) <= Len(SelectSeq(c.decoded, IsApplication))
        /\ (OversizeAhead(c) /\ c.raised = "") =>
              /\ c.closes >= 1
              /\ Last(WrittenMessages(c)) \in
                    {Message(ABORT, <<>>, <<>>, <<>>),
                     Message(ABORT, <<>>, <<>>, Utf8("No CSM received"))}

\* an oversize prefix arrived behind a capability announce, with a complete
\* frame behind it in the same buffer, and the oversize guard aborted the
\* connection
C7_Witness ==
    LET c == conns[FeedConn]
    IN  /\ OversizeAhead(c)
        /\ Len(c.spool) > Len(FrameOversize)
        /\ c.remote_settings.known
        /\ c.tm = <<>>
        /\ c.closes = 1
        /\ Last(WrittenMessages(c)) = Message(ABORT, <<>>, <<>>, <<>>)

\* a ping without a critical option
IsPlainPing(m) ==
    m.code = PING /\ \A i \in DOMAIN m.opts : ~is_critical(m.opts[i].number)

\* C9: the pongs a connection wrote are, in order, one for every ping without
\* critical option it decoded, each with the token of its ping, whether or
\* not a capability announce was received; no signalling message is forwarded
\* to the token manager; and nothing is written for a pong: the frames written
\* are the initial capability announce, the pongs and one abort frame for
\* every close of the stream.
C9_PingPong ==
    LET c == conns[FeedConn]
        pings == SelectSeq(c.decoded, IsPlainPing)
        pongs == SelectSeq(WrittenMessages(c), IsPongFrame)
        aborts == SelectSeq(WrittenMessages(c), IsAbortFrame)
    IN  /\ pongs = [k \in DOMAIN pings |-> Message(PONG, pings[k].token, <<>>, <<>>)]
        /\ \A k \in DOMAIN c.tm : IsApplication(Forwarded(c)[k])
        /\ Len(aborts) = c.closes
        /\ Len(c.written) = (IF c.made THEN 1 ELSE 0) + Len(pongs) + Len(aborts)

\* a ping was answered before any capability announce, and a pong was received
C9_Witness ==
    LET c == conns[FeedConn]
    IN  /\ ~c.remote_settings.known
        /\ \E i \in DOMAIN c.decoded : IsPlainPing(c.decoded[i])
        /\ \E i \in DOMAIN c.decoded : c.decoded[i].code = PONG
        /\ \E k \in DOMAIN c.written :
              WrittenMessages(c)[k] = Message(PONG, <<7>>, <<>>, <<>>)

\* the accumulation buffer starts with a complete frame, no longer than the
\* local maximum, whose header declares more than 8 token bytes
LongTokenAhead(c) ==
    LET size == extract_message_size(c.spool)
        msglen == size[1] + size[2] + size[3]
    IN  /\ size # NoSize
        /\ size[2] > 8
        /\ msglen <= Len(c.spool)
        /\ msglen <= MyMaxMessageSize

\* the first frame of a buffer that starts with a complete frame
FirstFrame(spool) ==
    LET size == extract_message_size(spool)
    IN  Take(spool, size[1] + size[2] + size[3])

\* C8: no message with a token of more than 8 bytes is ever decoded or
\* forwarded.  When the buffer starts with a complete frame that declares more
\* than 8 token bytes, decoding that frame raises UnparsableMessage, and,
\* unless an exception ended the read before the frame was looked at, the
\* stream is closed and the last abort frame written carries "Failed to parse
\* message", or "No CSM received" when that abort ended the read just before.
\* Sending a message with a token of more than 8 bytes raises ValueError and
\* writes nothing; sending one with a shorter token writes one frame.
C8_TokenLength ==
    LET c == conns[FeedConn]
        aborts == SelectSeq(WrittenMessages(c), IsAbortFrame)
    IN  /\ \A i \in DOMAIN c.decoded : Len(c.decoded[i].token) <= 8
        /\ \A k \in DOMAIN c.tm : Len(c.tm[k].msg.token) <= 8
        /\ LongTokenAhead(c) =>
              /\ decode_message(FirstFrame(c.spool)).raised = "UnparsableMessage"
              /\ c.raised = "" =>
                    /\ c.closes >= 1
                    /\ aborts # <<>>
                    /\ Last(aborts).payload \in
                          {Utf8("Failed to parse message"), Utf8("No CSM received")}
        /\ \A i \in DOMAIN sends :
              IF Len(sends[i].msg.token) > 8
              THEN sends[i].raised = "ValueError" /\ sends[i].wrote = 0
              ELSE sends[i].raised = "" /\ sends[i].wrote = 1

\* a frame declaring 9 token bytes was read behind a capability announce and
\* the connection aborted for it, and a message with a 9 byte token was sent
C8_Witness ==
    LET c == conns[FeedConn]
        aborts == SelectSeq(WrittenMessages(c), IsAbortFrame)
    IN  /\ LongTokenAhead(c)
        /\ c.remote_settings.known
        /\ c.closes = 1
        /\ aborts # <<>>
        /\ Last(aborts).payload = Utf8("Failed to parse message")
        /\ \E i \in DOMAIN sends : Len(sends[i].msg.token) > 8

\* the capability announce of a connection with the local maximum message size
InitialCSM ==
    Message(CSM, <<>>, <<UintOption(2, MyMaxMessageSize), UintOption(4, 0)>>, <<>>)

\* C12: on every connection the first frame written is the capability
\* announce with option 2 = the local maximum message size (1048576) and
\* option 4; it is there as soon as the stream is established, and before that
\* nothing is written and no inbound byte is taken or decoded, so that no
\* pong, abort frame or application message precedes it.
C12_InitialCSM ==
    \A c \in DOMAIN conns :
        /\ ~conns[c].made =>
              (conns[c].written = <<>> /\ conns[c].spool = <<>>
                 /\ conns[c].decoded = <<>>)
        /\ conns[c].made =>
              /\ Len(conns[c].written) >= 1
              /\ WrittenMessages(conns[c])[1] = InitialCSM
              /\ from_bytes(WrittenMessages(conns[c])[1].opts[1].value)
                    = conns[c].my_max_message_size
        /\ \A k \in DOMAIN conns[c].written :
              k > 1 => WrittenMessages(conns[c])[k].code # CSM

\* behind its capability announce a connection wrote a pong and an abort
\* frame, and the application sent a message on it
C12_Witness ==
    LET c == conns[FeedConn]
    IN  /\ c.made
        /\ Len(c.written) >= 4
        /\ \E k \in DOMAIN c.written : IsPongFrame(WrittenMessages(c)[k])
        /\ \E k \in DOMAIN c.written : IsAbortFrame(WrittenMessages(c)[k])
        /\ \E i \in DOMAIN sends : sends[i].wrote = 1

\* C16: once the inbound path has aborted a connection (its stream is
\* closed), the accumulation buffer is empty: neither the frame the abort was
\* for nor the bytes behind it remain in it.
C16_BufferDiscarded ==
    conns[FeedConn].closes >= 1 => conns[FeedConn].spool = <<>>

\* a is b with some of its elements left out
RECURSIVE IsSubsequence(_, _)
IsSubsequence(a, b) ==
    IF Len(a) = 0 THEN TRUE
    ELSE IF Len(b) = 0 THEN FALSE
    ELSE IF a[1] = b[1] THEN IsSubsequence(Tail(a), Tail(b))
    ELSE IsSubsequence(a, Tail(b))

\* the bytes of the stream that have left the accumulation buffer
Consumed(c) == Take(stream, pos - Len(c.spool))

\* C17: however the bytes are cut into reads, the bytes delivered are the
\* frames taken out of the buffer followed by the buffer, every frame taken
\* out was decoded exactly once and in stream order, and the messages handed
\* to the token manager are, in that order and without repetition, among the
\* application frames taken out, also when a frame raised or aborted.
C17_FifoAtMostOnce ==
    LET c == conns[FeedConn]
    IN  /\ Consumed(c) \o c.spool = Take(stream, pos)
        /\ c.decoded = FramesOf(Consumed(c))
        /\ IsSubsequence(Forwarded(c), SelectSeq(FramesOf(Consumed(c)), IsApplication))
        /\ \A k \in DOMAIN c.tm :
              c.tm[k].call = IF is_response(c.tm[k].msg.code)
                             THEN "process_response" ELSE "process_request"

\* a request was forwarded behind a capability announce, the release frame
\* behind it raised, and it left the buffer all the same
C17_Witness ==
    LET c == conns[FeedConn]
    IN  /\ c.raised = "NotImplementedError"
        /\ Len(c.tm) = 1
        /\ Len(c.decoded) = 3
        /\ Last(c.decoded).code = RELEASE
        /\ c.spool = <<>>

\* the options of the capability announces among some messages, in order
RECURSIVE CSMOptionsOf(_)
CSMOptionsOf(msgs) ==
    IF Len(msgs) = 0 THEN <<>>
    ELSE (IF msgs[1].code = CSM THEN msgs[1].opts ELSE <<>>)
             \o CSMOptionsOf(Tail(msgs))

IsSizeOption(o) == o.number = 2

IsBlockwiseOption(o) == o.number = 4

\* the messages a step decodes on the connection
NewlyDecoded ==
    SubSeq(conns'[FeedConn].decoded, Len(conns[FeedConn].decoded) + 1,
           Len(conns'[FeedConn].decoded))

\* what a step may do to the remote settings
CSMStep ==
    LET old == conns[FeedConn].remote_settings
        new == conns'[FeedConn].remote_settings
        opts == CSMOptionsOf(NewlyDecoded)
        sizes == SelectSeq(opts, IsSizeOption)
        anycsm == \E i \in DOMAIN NewlyDecoded : NewlyDecoded[i].code = CSM
        badcsm == \E i \in DOMAIN NewlyDecoded :
                      NewlyDecoded[i].code = CSM /\ HasBadCSMOption(NewlyDecoded[i])
    IN  /\ new.known <=> (old.known \/ anycsm)
        /\ ~anycsm => new = old
        /\ sizes = <<>> => new.max_message_size = old.max_message_size
        /\ SelectSeq(opts, IsBlockwiseOption) = <<>> =>
              new.block_wise_transfer = old.block_wise_transfer
        /\ ~badcsm =>
              /\ sizes # <<>> => new.max_message_size = from_bytes(Last(sizes).value)
              /\ SelectSeq(opts, IsBlockwiseOption) # <<>> => new.block_wise_transfer

\* C18: the remote settings of a connection become known with the first
\* capability announce decoded and never return to unknown; a step that
\* decodes no capability announce leaves them as they are, and a capability
\* announce changes only the settings whose options it carries: option 2
\* sets max-message-size, option 4 sets the block-wise flag, every setting
\* it does not name keeps its value.
C18_CSMUpdate == [][CSMStep]_vars

\* a capability announce with options 2 (= 64) and 4 was followed by one with
\* option 2 (= 32) only: the size is updated, the block-wise flag is kept
C18_Witness ==
    LET c == conns[FeedConn]
    IN  /\ Len(c.decoded) = 2
        /\ c.decoded[1].code = CSM
        /\ SelectSeq(c.decoded[1].opts, IsBlockwiseOption) # <<>>
        /\ c.decoded[2].code = CSM
        /\ SelectSeq(c.decoded[2].opts, IsBlockwiseOption) = <<>>
        /\ c.remote_settings =
              [known |-> TRUE, max_message_size |-> 32, block_wise_transfer |-> TRUE]

----------------------------------------------------------------------------
(* Properties of the length codec.                                         *)

\* the length nibble, the offset and the number of extended bytes the wire
\* format gives a body length
DocumentedLength(n) ==
    IF n < 13 THEN [nibble |-> n, offset |-> 0, extlen |-> 0]
    ELSE IF n < 269 THEN [nibble |-> 13, offset |-> 13, extlen |-> 1]
    ELSE IF n < 65805 THEN [nibble |-> 14, offset |-> 269, extlen |-> 2]
    ELSE [nibble |-> 15, offset |-> 65805, extlen |-> 4]

\* C10: _encode_length succeeds for every body length, selects the length
\* nibble the wire format documents and emits the length minus the offset of
\* that nibble as extended bytes, and _extract_message_size reads the same
\* body length back from the header.
C10_LengthRoundTrip ==
    /\ len_enc # NotCalled =>
          /\ len_enc.raised = ""
          /\ len_enc.nibble = DocumentedLength(len_n).nibble
          /\ len_enc.ext = BigEndian(len_n - DocumentedLength(len_n).offset,
                                     DocumentedLength(len_n).extlen)
    /\ len_dec # NoSize => len_dec[3] = len_n

\* C11: _serialize succeeds for every message with a token of at most 8
\* bytes, _decode_message gives back the code, the token, the options and the
\* payload of the message from the frame, and the three values
\* _extract_message_size reads from the frame add up to its length.
C11_FrameRoundTrip ==
    /\ frame_enc # NotSerialized => frame_enc.raised = ""
    /\ frame_size # NoSize =>
          frame_size[1] + frame_size[2] + frame_size[3] = Len(frame_enc.bytes)
    /\ frame_dec # NotDecoded =>
          (frame_dec.raised = "" /\ frame_dec.msg = frame_msg)

----------------------------------------------------------------------------
(* Properties of the pools.                                                *)

\* a connection whose stream is established and neither closed nor lost
Live(c) == conns[c].made /\ ~conns[c].lost /\ conns[c].closes = 0

\* C3: two resolve calls for the same (host, port) whose connections are both
\* live returned the same connection, so that no two live connections exist
\* for one key; calls for different keys returned different connections.
C3_ClientPoolReuse ==
    \A t1, t2 \in Tasks :
        (tasks[t1].pc = "done" /\ tasks[t2].pc = "done") =>
            /\ (tasks[t1].key = tasks[t2].key
                  /\ Live(tasks[t1].result) /\ Live(tasks[t2].result))
               => tasks[t1].result = tasks[t2].result
            /\ tasks[t1].key # tasks[t2].key
               => tasks[t1].result # tasks[t2].result

\* C4: a connection that was a pool entry when connection_lost was called is
\* in no pool afterwards, and the token manager got exactly one dispatch_error
\* for it, with the errno of an OSError and 0 otherwise.
C4_EvictionOnLoss ==
    \A c \in DOMAIN conns :
        (conns[c].lost /\ conns[c].loss.pooled) =>
            /\ ~Pooled(c)
            /\ conns[c].errors = <<error_code(conns[c].loss)>>

\* the abort frame of a shutdown
ShutdownAbort == Message(ABORT, <<>>, <<>>, Utf8("Server shutdown"))

\* the connection wrote the abort frame of a shutdown and closed its stream
AbortedByShutdown(c) ==
    /\ conns[c].closes >= 1
    /\ \E k \in DOMAIN conns[c].written : WrittenMessages(conns[c])[k] = ShutdownAbort

\* C13: TCPServer.shutdown closes the listening endpoint, aborts every
\* connection of the pool with the diagnostic "Server shutdown" (abort frame
\* written, stream closed), waits for the endpoint and then releases the token
\* manager: no exception leaves it, from its first suspension on the endpoint
\* is closed and every connection still in the pool is aborted, also one whose
\* connection_made has not run, and the token manager is released exactly
\* when shutdown is through.
C13_ServerShutdownOrder ==
    /\ server.shutdown \in {"no", "waiting", "done"}
    /\ server.shutdown # "no" =>
          /\ ~server.listening
          /\ \A c \in server_pool : AbortedByShutdown(c)
    /\ tokenmanager["server"] <=> server.shutdown # "done"

\* C14: once TCPClient.shutdown is through (the token manager is released),
\* every connection of the client whose stream is established and which is
\* not lost has written the abort frame of the shutdown and closed its
\* stream, whatever resolve calls raced on a key or were still establishing
\* their stream.
C14_ClientShutdownComplete ==
    ~tokenmanager["client"] =>
        \A c \in DOMAIN conns :
            (conns[c].ctx = "client" /\ conns[c].made /\ ~conns[c].lost)
                => AbortedByShutdown(c)

\* no host can be determined for a message: no Uri-Host, and no unresolved
\* remote or one without a host name
NoHost(message) ==
    /\ message.uri_host = "None"
    /\ \/ message.unresolved_remote = "None"
       \/ SplitNetloc(message.unresolved_remote).hostname = "None"

\* C15: a resolve call for a message for which no host can be determined
\* fails with ValueError: it attempts and creates no connection, and nothing
\* is filed in the client pool without a host.
C15_NoHostValueError ==
    /\ \A t \in Tasks :
          (tasks[t].pc # "idle" /\ NoHost(tasks[t].message)) =>
              (tasks[t].pc = "ValueError" /\ tasks[t].protocol = 0
                 /\ tasks[t].result = 0)
    /\ \A k \in DOMAIN client_pool : k[1] # "None"

\* C19: the token manager is not used after shutdown has released it: when
\* a pool has released its token manager, the connection_lost of every
\* connection its shutdown aborted has been delivered already, and no
\* connection_lost found the token manager gone (AttributeError in
\* _dispatch_error).
C19_NoUseAfterRelease ==
    \A c \in DOMAIN conns :
        /\ conns[c].lost => conns[c].raised # "AttributeError"
        /\ (~tokenmanager[conns[c].ctx] /\ AbortedByShutdown(c)) => conns[c].lost

\* a resolve call returns in this step with a connection it found in the pool
PoolHit(t) ==
    /\ tasks[t].pc = "idle"
    /\ tasks'[t].pc = "done"

\* C20: a connection that a resolve call finds in the client pool has an
\* open stream: it was neither closed by abort nor lost when the call
\* returned it.
C20_NoClosedHandout ==
    [][\A t \in Tasks :
          PoolHit(t) => (conns[tasks'[t].result].closes = 0
                           /\ ~conns[tasks'[t].result].lost)]_vars

====
